---- MODULE Spec2Model ----
(***************************************************************************)
(* State-machine model of threads_scraper.py: the command-line run of      *)
(* ThreadsScraper (driver set-up, posts pass, replies pass, output,        *)
(* close), with the Content-Ready Gate (_wait_for_content), the            *)
(* scroll-extract loop (_scroll_and_extract, _scroll_page) and the         *)
(* save gate (_should_save_post, _save_post), the output step (the json    *)
(* and txt writers of main, generate_markdown, generate_pdf and its         *)
(* fallbacks) and the image filter of _extract_images.                      *)
(***************************************************************************)
EXTENDS Integers, Sequences, FiniteSets, TLC

(* ------------------------------ bounds -------------------------------- *)

\* the --max-scrolls values explored are -1 .. MaxScrolls, and 5
MaxScrolls == 1
\* number of distinct page heights the browser can report
NumHeights == 2
\* largest number of content elements one element lookup returns
MaxArticles == 2
\* number of image URLs of the record of the feed that holds the most
MaxImages == 4

(* ------------------------- program constants -------------------------- *)

\* _wait_for_content(timeout=30)
GateTimeout == 30
\* time.sleep(2) at the end of every poll
PollSleep == 2
\* len(self.driver.page_source) > 1000
MarkupFloor == 1000
\* max_scroll_attempts = self.max_scrolls * 2
ScrollFactor == 2
\* _create_image_elements(image_urls, max_images=3)
PdfMaxImages == 3
\* _is_small_image:  0 < width < 50 or 0 < height < 50
SmallSide == 50

(* ------------------------------ strings ------------------------------- *)
\* A string whose content matters (a URL) is a sequence of characters.

UpperCase == <<"A", "B", "C", "D", "E", "F", "G", "H", "I", "J", "K", "L", "M",
               "N", "O", "P", "Q", "R", "S", "T", "U", "V", "W", "X", "Y", "Z">>
LowerCase == <<"a", "b", "c", "d", "e", "f", "g", "h", "i", "j", "k", "l", "m",
               "n", "o", "p", "q", "r", "s", "t", "u", "v", "w", "x", "y", "z">>

Lower(c) ==
    IF \E i \in 1..26 : UpperCase[i] = c
    THEN LowerCase[CHOOSE i \in 1..26 : UpperCase[i] = c]
    ELSE c

Upper(c) ==
    IF \E i \in 1..26 : LowerCase[i] = c
    THEN UpperCase[CHOOSE i \in 1..26 : LowerCase[i] = c]
    ELSE c

\* str.upper()
ToUpper(s) == [i \in 1..Len(s) |-> Upper(s[i])]

\* str.lower()
ToLower(s) == [i \in 1..Len(s) |-> Lower(s[i])]

\* Python's  sub in s
Contains(sub, s) ==
    \E i \in 0..(Len(s) - Len(sub)) :
        \A j \in 1..Len(sub) : s[i + j] = sub[j]

LoginWord == <<"l", "o", "g", "i", "n">>
BlockedWord == <<"b", "l", "o", "c", "k", "e", "d">>

\* the URLs the browser can be at during a poll of the gate
ProfileUrl == <<"t", "/", "@", "u">>
LoginUrl == <<"t", "/", "l", "o", "g", "i", "n">>
LoginUrlUpper == <<"t", "/", "L", "o", "g", "i", "n">>
BlockedUrl == <<"t", "/", "B", "l", "o", "c", "k", "e", "d">>
Urls == {ProfileUrl, LoginUrl, LoginUrlUpper, BlockedUrl}

\* the sets of selectors (indexes into the selectors list) a poll can find
\* matching: none, the first one, two later ones
MatchSets == { {}, {1}, {5, 7} }

\* _is_blocked_page
IsBlockedPage(current_url) ==
    \/ Contains(LoginWord, ToLower(current_url))
    \/ Contains(BlockedWord, ToLower(current_url))

(* ---------------------------- the gate -------------------------------- *)

\* the selectors list of _wait_for_content
selectors == <<"article", "div[role='article']",
               "div[data-pressable-container='true']",
               "div._aabd._aa8k._al3l",
               "div[style*='flex-direction: column']",
               "span[dir='auto']", "img:not([alt='Profile picture'])">>

\* lengths of driver.page_source seen by a poll
MarkupLens == {50, MarkupFloor, MarkupFloor + 1}

\* ContentFound with the size floor met by a markup of exactly 1000
ContentFoundAtFloor(matched, markup_len) ==
    \E s \in 1..Len(selectors) : s \in matched /\ markup_len >= MarkupFloor

\* the body of the selector loop of one poll: matched is the set of
\* selectors (indexes) whose find_elements result is not empty
ContentFound(matched, markup_len) ==
    \E s \in 1..Len(selectors) : s \in matched /\ markup_len > MarkupFloor

\* while time.time() - start_time < timeout
GateWaiting(t) == t < GateTimeout

(* --------------------------- the records ------------------------------ *)

Stamp == "2024-01-01T00:00:00Z"

\* the dict built by _extract_post_data
PostData(text, timestamp, stats, images, url) ==
    [text |-> text, timestamp |-> timestamp, stats |-> stats,
     images |-> images, url |-> url]

\* What the extractors read from the content elements of the modelled
\* feed: two elements with the same (text, timestamp) and different
\* url / stats / images, one with an image and no text, and one with
\* neither text nor image.
\* the image URLs of a record that holds MaxImages of them
ManyImages == [i \in 1..MaxImages |-> "i" \o ToString(i)]

FeedData ==
    { PostData("hi", Stamp, <<>>, <<>>, "u1"),
      PostData("hi", Stamp, <<"1 like">>, <<"i1">>, "u2"),
      PostData("", Stamp, <<>>, ManyImages, ""),
      PostData("", "", <<>>, <<>>, "") }

\* A content element: the data its extraction yields and the step of the
\* loop body at which the driver raises for it ("none": no exception).
Element(data, raises) == [data |-> data, raises |-> raises]

Elements ==
    { Element(d, "none") : d \in FeedData }
      \cup { Element(PostData("hi", Stamp, <<>>, <<>>, "u1"), r) :
                r \in {"scroll", "extract"} }

\* the lists an element lookup can return
ArticleLists == UNION { [1..n -> Elements] : n \in 0..MaxArticles }

Truthy(seq) == seq /= <<>>

\* _should_save_post taking the url into the identity of a record
ShouldSavePostByUrl(post_data, collection) ==
    IF ~(post_data.text /= "" \/ Truthy(post_data.images))
    THEN FALSE
    ELSE ~ \E i \in 1..Len(collection) :
              /\ collection[i].text = post_data.text
              /\ collection[i].timestamp = post_data.timestamp
              /\ collection[i].url = post_data.url

\* _should_save_post without the test for an empty record
ShouldSavePostAnyContent(post_data, collection) ==
    ~ \E i \in 1..Len(collection) :
          /\ collection[i].text = post_data.text
          /\ collection[i].timestamp = post_data.timestamp

\* _should_save_post
ShouldSavePost(post_data, collection) ==
    IF ~(post_data.text /= "" \/ Truthy(post_data.images))
    THEN FALSE
    ELSE ~ \E i \in 1..Len(collection) :
              /\ collection[i].text = post_data.text
              /\ collection[i].timestamp = post_data.timestamp

\* _save_post putting the record in front of the collection
SavePostInFront(post_data, collection) == <<post_data>> \o collection

\* _save_post: append to the collection the caller selected
SavePost(post_data, collection) == Append(collection, post_data)

\* the loop body replacing the stored record by a later element with the
\* same (text, timestamp)
ProcessArticleLastWins(article, st) ==
    IF article.raises /= "none"
    THEN st
    ELSE IF ShouldSavePost(article.data, st.coll)
         THEN [coll |-> SavePost(article.data, st.coll), count |-> st.count + 1]
         ELSE [coll |-> [i \in 1..Len(st.coll) |->
                            IF /\ st.coll[i].text = article.data.text
                               /\ st.coll[i].timestamp = article.data.timestamp
                            THEN article.data
                            ELSE st.coll[i]],
               count |-> st.count]

\* The body of  for article in articles  for one element, on the pair
\* st = [coll, count] (the target collection and posts_count).
ProcessArticle(article, st) ==
    IF article.raises /= "none"
    THEN st
    ELSE IF ShouldSavePost(article.data, st.coll)
         THEN [coll |-> SavePost(article.data, st.coll), count |-> st.count + 1]
         ELSE st

RECURSIVE ProcessArticlesUntilError(_, _, _)
\* the for loop with the try around the loop instead of inside it: the
\* first exception ends the visit
ProcessArticlesUntilError(arts, i, st) ==
    IF i > Len(arts) THEN st
    ELSE IF arts[i].raises /= "none" THEN st
    ELSE ProcessArticlesUntilError(arts, i + 1, ProcessArticle(arts[i], st))

RECURSIVE ProcessArticles(_, _, _)
\* the for loop over articles, from element i on
ProcessArticles(arts, i, st) ==
    IF i > Len(arts) THEN st
    ELSE ProcessArticles(arts, i + 1, ProcessArticle(arts[i], st))

(* --------------------------- the scrolling ---------------------------- *)

\* the values of --max-scrolls (argparse type=int: any integer)
ScrollBudgets == ((-1)..MaxScrolls) \cup {5}

Heights == { 100 * k : k \in 1..NumHeights }

\* max_scroll_attempts with a floor of one attempt
MaxScrollAttemptsAtLeastOne(budget) ==
    IF budget * ScrollFactor < 1 THEN 1 ELSE budget * ScrollFactor

\* max_scroll_attempts = self.max_scrolls * 2
MaxScrollAttempts(budget) == budget * ScrollFactor

\* the loop test off by one
LoopGuardInclusive(attempts, budget) == attempts <= MaxScrollAttempts(budget)

\* while scroll_attempts < max_scroll_attempts
LoopGuard(attempts, budget) == attempts < MaxScrollAttempts(budget)

\* _scroll_page: is the nudge made after the first measurement h1
Nudges(h1, reference) == h1 = reference

\* _scroll_page giving up at the first unchanged measurement, whatever the
\* re-measurement after the nudge shows
ScrollPageNoSecondChance(h1, h2, reference) == ~(h1 = reference)

\* _scroll_page: its return value, True = keep scrolling.  h1 is the height
\* measured after the scroll to the bottom, h2 the one measured after the
\* nudge (read only when the nudge is made).
ScrollPage(h1, h2, reference) ==
    IF Nudges(h1, reference)
    THEN ~(h2 = reference)
    ELSE TRUE

(* -------------------------- the image filter ------------------------- *)

\* What get_attribute returns: None (present = FALSE) or a string.
Attr(s) == [present |-> TRUE, s |-> s]
Missing == [present |-> FALSE, s |-> <<>>]

\* Python truthiness of None / str, as in  x or 0,  x or "",  not src
Falsy(a) == ~a.present \/ a.s = <<>>

Digits == <<"0", "1", "2", "3", "4", "5", "6", "7", "8", "9">>
IsDigit(c) == \E i \in 1..10 : Digits[i] = c
DigitValue(c) == (CHOOSE i \in 1..10 : Digits[i] = c) - 1

RECURSIVE DigitsValue(_)
DigitsValue(d) ==
    IF d = <<>> THEN 0
    ELSE 10 * DigitsValue(SubSeq(d, 1, Len(d) - 1)) + DigitValue(d[Len(d)])

RECURSIVE StripLeft(_)
StripLeft(s) == IF s /= <<>> /\ s[1] = " " THEN StripLeft(Tail(s)) ELSE s

RECURSIVE StripRight(_)
StripRight(s) ==
    IF s /= <<>> /\ s[Len(s)] = " "
    THEN StripRight(SubSeq(s, 1, Len(s) - 1))
    ELSE s

\* int(s) of a str: surrounding blanks, an optional sign, decimal digits;
\* ok = FALSE stands for ValueError
ParseInt(s) ==
    LET t == StripRight(StripLeft(s))
        signed == t /= <<>> /\ t[1] \in {"-", "+"}
        body == IF signed THEN Tail(t) ELSE t
    IN IF body = <<>> \/ \E i \in 1..Len(body) : ~IsDigit(body[i])
       THEN [ok |-> FALSE, val |-> 0]
       ELSE [ok |-> TRUE,
             val |-> IF signed /\ t[1] = "-"
                     THEN 0 - DigitsValue(body) ELSE DigitsValue(body)]

\* int(img.get_attribute(...) or 0)
IntOrZero(a) == IF Falsy(a) THEN [ok |-> TRUE, val |-> 0] ELSE ParseInt(a.s)

\* _is_small_image: both conversions and the comparison are in one try,
\* except (ValueError, TypeError): pass, then return False
IsSmallImage(width, height) ==
    LET w == IntOrZero(width)
        h == IntOrZero(height)
    IN IF ~w.ok THEN FALSE
       ELSE IF ~h.ok THEN FALSE
       ELSE \/ (0 < w.val /\ w.val < SmallSide)
            \/ (0 < h.val /\ h.val < SmallSide)

Profile == <<"p", "r", "o", "f", "i", "l", "e">>
Avatar == <<"a", "v", "a", "t", "a", "r">>

\* _extract_images: profile_indicators
profile_indicators ==
    { Profile \o <<"_", "p", "i", "c">>,
      Profile \o <<"-", "p", "i", "c">>,
      Avatar,
      Profile,
      <<"/", "p", "/">>,
      <<"_", "p", "p", "_">>,
      Profile \o <<"_", "i", "m", "a", "g", "e">> }

\* _is_profile_picture comparing the src as it is written
IsProfilePictureCaseSensitive(src, alt, indicators) ==
    \/ \E ind \in indicators : Contains(ind, src)
    \/ \E ind \in indicators : Contains(ind, alt)
    \/ Contains(Profile, alt)
    \/ alt = Avatar

\* _is_profile_picture(src, alt, indicators); alt arrives lower-cased
IsProfilePicture(src, alt, indicators) ==
    \/ \E ind \in indicators : Contains(ind, ToLower(src))
    \/ \E ind \in indicators : Contains(ind, alt)
    \/ Contains(Profile, alt)
    \/ alt = Avatar

\* _extract_images: the body of the loop over the img elements, for the
\* element cand and the image_urls collected so far
ExtractImage(cand, urls) ==
    LET alt == ToLower(IF Falsy(cand.alt) THEN <<>> ELSE cand.alt.s)
    IN IF Falsy(cand.src)
       THEN [verdict |-> "no_src", image_urls |-> urls]
       ELSE IF IsProfilePicture(cand.src.s, alt, profile_indicators)
       THEN [verdict |-> "profile", image_urls |-> urls]
       ELSE IF IsSmallImage(cand.width, cand.height)
       THEN [verdict |-> "small", image_urls |-> urls]
       ELSE IF \E i \in 1..Len(urls) : urls[i] = cand.src.s
       THEN [verdict |-> "duplicate", image_urls |-> urls]
       ELSE [verdict |-> "added", image_urls |-> Append(urls, cand.src.s)]

\* the img elements examined: the values of their src, alt, width and
\* height attributes
PlainSrc == <<"h", "/", "a", ".", "j", "p", "g">>

Srcs ==
    { Missing, Attr(<<>>), Attr(PlainSrc), Attr(<<"h", "/">> \o Avatar) }
      \cup { Attr(<<"h", "/">> \o ToUpper(ind) \o <<".", "j">>) :
                ind \in profile_indicators }

Alts ==
    { Missing, Attr(<<"c", "a", "t">>) }
      \cup { Attr(ToUpper(ind) \o <<" ", "x">>) : ind \in profile_indicators }

Sides ==
    { Missing, Attr(<<>>), Attr(<<"5", "x">>), Attr(<<"0">>),
      Attr(<<"-", "5">>), Attr(<<"4", "9">>), Attr(<<" ", "9">>),
      Attr(<<"5", "0">>) }

ImageCandidates == [src : Srcs, alt : Alts, width : Sides, height : Sides]

NoImage == [src |-> Missing, alt |-> Missing, width |-> Missing,
            height |-> Missing]

(* ------------------------------ state --------------------------------- *)

VARIABLES
    pc,              \* position of the run
    exc,             \* an exception is propagating to main's finally
    exit_code,       \* process exit code, -1 while running
    quits,           \* number of driver.quit() calls
    max_scrolls,     \* self.max_scrolls
    skip_posts,      \* args.skip_posts
    skip_replies,    \* args.skip_replies
    posts,           \* self.posts
    replies,         \* self.replies
    is_replies,      \* the pass being run
    ready,           \* per pass: what _wait_for_content returned
    elapsed,         \* time.time() - start_time in _wait_for_content
    poll,            \* what the latest poll of the gate saw
    last_height,     \* _scroll_and_extract: last_height
    scroll_attempts, \* _scroll_and_extract: scroll_attempts
    posts_count,     \* _scroll_and_extract: posts_count
    articles,        \* _scroll_and_extract: articles
    measured,        \* heights measured by the latest (initial or scroll) measurement step
    scroll_calls,    \* number of _scroll_page calls of the pass
    visits,          \* number of extraction visits of the pass
    diagnosed,       \* per pass: what _handle_no_content did
    output_format,   \* args.output_format, "unset" until branched on
    renderer,        \* the writer being run by the output step
    attempts,        \* the writers run so far and how each ended
    downloads,       \* per record written: number of download_image calls
    img,             \* _extract_images: the img element of the iteration
    image_urls,      \* _extract_images: image_urls
    verdict          \* _extract_images: how the iteration ended

vars == <<pc, exc, exit_code, quits, max_scrolls, skip_posts, skip_replies,
          posts, replies, is_replies, ready, elapsed, poll, last_height,
          scroll_attempts, posts_count, articles, measured, scroll_calls,
          visits, diagnosed, output_format, renderer, attempts, downloads,
          img, image_urls, verdict>>

argVars == <<max_scrolls, skip_posts, skip_replies>>
collVars == <<posts, replies>>
gateVars == <<elapsed, poll>>
loopVars == <<last_height, scroll_attempts, posts_count, articles, measured,
              scroll_calls, visits>>

outVars == <<output_format, renderer, attempts, downloads>>
imgVars == <<img, image_urls, verdict>>

NoPoll == [matched |-> {}, markup |-> 0, url |-> <<>>, raised |-> FALSE]

\* what one poll can see: the driver raises, or it answers the selector
\* queries, page_source and current_url
PollOutcomes ==
    { [matched |-> {}, markup |-> 0, url |-> <<>>, raised |-> TRUE] }
      \cup [matched : MatchSets, markup : MarkupLens, url : Urls,
            raised : {FALSE}]

Init ==
    /\ pc = "setup"
    /\ exc = FALSE
    /\ exit_code = -1
    /\ quits = 0
    /\ max_scrolls \in ScrollBudgets
    /\ skip_posts \in BOOLEAN
    /\ skip_replies \in BOOLEAN
    /\ posts = <<>>
    /\ replies = <<>>
    /\ is_replies = FALSE
    /\ ready = [p \in {"posts", "replies"} |-> "unrun"]
    /\ elapsed = 0
    /\ poll = NoPoll
    /\ last_height = 0
    /\ scroll_attempts = 0
    /\ posts_count = 0
    /\ articles = <<>>
    /\ measured = <<>>
    /\ scroll_calls = 0
    /\ visits = 0
    /\ diagnosed = [p \in {"posts", "replies"} |-> "none"]
    /\ output_format = "unset"
    /\ renderer = "none"
    /\ attempts = <<>>
    /\ downloads = <<>>
    /\ img = NoImage
    /\ image_urls = <<>>
    /\ verdict = "idle"

PassName == IF is_replies THEN "replies" ELSE "posts"

\* _scroll_and_extract:  if posts_count == 0: self._handle_no_content(...)
HandlesNoContent(count) == count = 0

\* where main continues after the pass returns
AfterPass == IF is_replies THEN "main_output" ELSE "main_replies"

\* the loop entered whatever the gate returned
PassEntersLoopAlways(gate_result) == TRUE

\* scrape_posts / scrape_replies:  if self._wait_for_content():
\* _scroll_and_extract is entered
PassEntersLoop(gate_result) == gate_result

\* _wait_for_content returns gate_result to scrape_posts / scrape_replies
GateReturns(gate_result) ==
    /\ ready' = [ready EXCEPT ![PassName] =
                    IF gate_result THEN "true" ELSE "false"]
    /\ pc' = IF PassEntersLoop(gate_result) THEN "loading" ELSE AfterPass
    /\ elapsed' = 0

\* the locals of _wait_for_content are gone
GateGone ==
    /\ elapsed' = 0
    /\ poll' = NoPoll

\* the locals of _scroll_and_extract (and the counters kept about them)
\* are gone
LoopGone ==
    /\ last_height' = 0
    /\ scroll_attempts' = 0
    /\ posts_count' = 0
    /\ articles' = <<>>
    /\ measured' = <<>>
    /\ scroll_calls' = 0
    /\ visits' = 0

\* an exception ending the process with the finally clause not run
RaiseSkipsFinally ==
    /\ pc' = "exited"
    /\ exc' = TRUE
    /\ GateGone
    /\ LoopGone

\* an exception leaves the pass and the try block of main
Raise ==
    /\ pc' = "finally"
    /\ exc' = TRUE
    /\ GateGone
    /\ LoopGone

(* ------------------------------ actions ------------------------------- *)

\* ThreadsScraper.__init__ / setup_driver
SetupDriver ==
    /\ pc = "setup"
    /\ \/ /\ pc' = "main_posts"
          /\ UNCHANGED exit_code
       \/ /\ pc' = "exited"
          /\ exit_code' = 1
    /\ UNCHANGED <<exc, quits, is_replies, ready>>
    /\ UNCHANGED <<argVars, collVars, gateVars, loopVars>>
    /\ UNCHANGED <<diagnosed, outVars, imgVars>>

\* main: if not args.skip_posts / if not args.skip_replies, when the pass
\* is skipped
SkipPass ==
    /\ \/ /\ pc = "main_posts"
          /\ skip_posts
          /\ pc' = "main_replies"
       \/ /\ pc = "main_replies"
          /\ skip_replies
          /\ pc' = "main_output"
    /\ UNCHANGED <<exc, exit_code, quits, is_replies, ready>>
    /\ UNCHANGED <<argVars, collVars, gateVars, loopVars>>
    /\ UNCHANGED <<diagnosed, outVars, imgVars>>

\* scrape_posts / scrape_replies up to the call of _wait_for_content:
\* driver.get, the settle delay, _trigger_initial_load
StartPass ==
    /\ \/ /\ pc = "main_posts"
          /\ ~skip_posts
          /\ is_replies' = FALSE
       \/ /\ pc = "main_replies"
          /\ ~skip_replies
          /\ is_replies' = TRUE
    /\ \/ /\ pc' = "gate"
          /\ UNCHANGED <<exc, gateVars, loopVars>>
       \/ Raise
    /\ UNCHANGED <<exit_code, quits, ready>>
    /\ UNCHANGED <<argVars, collVars>>
    /\ UNCHANGED <<diagnosed, outVars, imgVars>>

\* _wait_for_content: one iteration of the polling loop; obs is what the
\* driver answers during it
GatePoll ==
    /\ pc = "gate"
    /\ GateWaiting(elapsed)
    /\ \E obs \in PollOutcomes :
        /\ poll' = obs
        /\ IF obs.raised
           THEN \* except Exception: time.sleep(2)
                /\ elapsed' = elapsed + PollSleep
                /\ UNCHANGED <<pc, ready>>
           ELSE IF ContentFound(obs.matched, obs.markup)
           THEN GateReturns(TRUE)
           ELSE IF IsBlockedPage(obs.url)
           THEN GateReturns(FALSE)
           ELSE \* time.sleep(2)
                /\ elapsed' = elapsed + PollSleep
                /\ UNCHANGED <<pc, ready>>
    /\ UNCHANGED <<exc, exit_code, quits, is_replies>>
    /\ UNCHANGED <<argVars, collVars, loopVars>>
    /\ UNCHANGED <<diagnosed, outVars, imgVars>>

\* _wait_for_content: the loop condition fails, return False
GateTimesOut ==
    /\ pc = "gate"
    /\ ~GateWaiting(elapsed)
    /\ GateReturns(FALSE)
    /\ UNCHANGED poll
    /\ UNCHANGED <<exc, exit_code, quits, is_replies>>
    /\ UNCHANGED <<argVars, collVars, loopVars>>
    /\ UNCHANGED <<diagnosed, outVars, imgVars>>

\* _scroll_and_extract up to the loop: _save_debug_info, the measurement
\* of last_height, the counters
BeginLoop ==
    /\ pc = "loading"
    /\ \/ \E h \in Heights :
            /\ last_height' = h
            /\ measured' = <<h>>
            /\ scroll_attempts' = 0
            /\ posts_count' = 0
            /\ pc' = "extract"
            /\ GateGone
            /\ UNCHANGED <<exc, articles, scroll_calls, visits>>
       \/ Raise
    /\ UNCHANGED <<exit_code, quits, is_replies, ready>>
    /\ UNCHANGED <<argVars, collVars>>
    /\ UNCHANGED <<diagnosed, outVars, imgVars>>

\* one extraction visit: the loop test, _find_article_elements and the
\* for loop over the elements found
ExtractVisit ==
    /\ pc = "extract"
    /\ LoopGuard(scroll_attempts, max_scrolls)
    /\ \/ \E arts \in ArticleLists :
            LET st == ProcessArticles(arts, 1,
                        [coll |-> IF is_replies THEN replies ELSE posts,
                         count |-> posts_count])
            IN /\ articles' = arts
               /\ posts' = IF is_replies THEN posts ELSE st.coll
               /\ replies' = IF is_replies THEN st.coll ELSE replies
               /\ posts_count' = st.count
               /\ visits' = visits + 1
               /\ pc' = "scroll"
               /\ UNCHANGED <<exc, gateVars>>
               /\ UNCHANGED <<last_height, scroll_attempts, measured, scroll_calls>>
       \/ /\ Raise
          /\ UNCHANGED <<posts, replies>>
    /\ UNCHANGED <<exit_code, quits, is_replies, ready>>
    /\ UNCHANGED argVars
    /\ UNCHANGED <<diagnosed, outVars, imgVars>>

\* the loop test fails: leave the while loop
LoopExit ==
    /\ pc = "extract"
    /\ ~LoopGuard(scroll_attempts, max_scrolls)
    /\ pc' = "finish"
    /\ UNCHANGED <<exc, exit_code, quits, is_replies, ready>>
    /\ UNCHANGED <<argVars, collVars, gateVars, loopVars>>
    /\ UNCHANGED <<diagnosed, outVars, imgVars>>

\* one scroll attempt: the call of _scroll_page and what the loop does
\* with its result
ScrollAttempt ==
    /\ pc = "scroll"
    /\ \/ \E h1 \in Heights :
          \E h2 \in IF Nudges(h1, last_height) THEN Heights ELSE {h1} :
            /\ measured' = IF Nudges(h1, last_height) THEN <<h1, h2>> ELSE <<h1>>
            /\ scroll_calls' = scroll_calls + 1
            /\ IF ScrollPage(h1, h2, last_height)
               THEN /\ scroll_attempts' = scroll_attempts + 1
                    /\ pc' = "extract"
               ELSE /\ pc' = "finish"
                    /\ UNCHANGED scroll_attempts
            /\ articles' = <<>>
            /\ UNCHANGED <<exc, gateVars>>
            /\ UNCHANGED <<last_height, posts_count, visits>>
       \/ Raise
    /\ UNCHANGED <<exit_code, quits, is_replies, ready>>
    /\ UNCHANGED <<argVars, collVars>>
    /\ UNCHANGED <<diagnosed, outVars, imgVars>>

\* the end of _scroll_and_extract (the count, _handle_no_content) and the
\* return to main
FinishPass ==
    /\ pc = "finish"
    /\ \/ /\ pc' = AfterPass
          /\ LoopGone
          /\ diagnosed' = IF HandlesNoContent(posts_count)
                          THEN [diagnosed EXCEPT ![PassName] = "snapshot"]
                          ELSE diagnosed
          /\ UNCHANGED <<exc, gateVars>>
       \/ \* the warning is printed, then save_screenshot raises
          /\ HandlesNoContent(posts_count)
          /\ diagnosed' = [diagnosed EXCEPT ![PassName] = "warned"]
          /\ Raise
    /\ UNCHANGED <<exit_code, quits, is_replies, ready>>
    /\ UNCHANGED <<argVars, collVars, outVars, imgVars>>

\* the writer main selects for each value of --output-format
OutputFormats == {"pdf", "json", "txt", "md"}

SelectedWriter(format) ==
    CASE format = "json" -> "main_json"
      [] format = "txt" -> "main_txt"
      [] format = "md" -> "markdown"
      [] OTHER -> "pdf"

\* _create_image_elements:  for img_url in image_urls[:max_images]
PdfImageUrls(urls) ==
    SubSeq(urls, 1, IF Len(urls) < PdfMaxImages THEN Len(urls) ELSE PdfMaxImages)

\* _write_post_markdown:  for i, img_url in enumerate(post['images'])
MarkdownImageUrls(urls) == urls

\* the download_image calls of _create_image_elements, per record of posts
\* and replies
PdfDownloads ==
    LET records == posts \o replies
    IN [i \in 1..Len(records) |-> Len(PdfImageUrls(records[i].images))]

\* the download_image calls of _write_post_markdown, per record of posts
\* and replies
MarkdownDownloads ==
    LET records == posts \o replies
    IN [i \in 1..Len(records) |-> Len(MarkdownImageUrls(records[i].images))]

\* the text-only PDF followed directly by the JSON dump
FallbackAfterSkipsText(failed) == "json"

\* _try_fallback_formats: the writer tried after the one that failed
FallbackAfter(failed) ==
    CASE failed = "pdf_text_only" -> "text"
      [] failed = "text" -> "json"

Attempt(writer, outcome) ==
    attempts' = Append(attempts, [renderer |-> writer, outcome |-> outcome])

\* the output step returns to main's finally
OutputDone ==
    /\ pc' = "finally"
    /\ renderer' = "none"
    /\ UNCHANGED <<exc, gateVars, loopVars>>

\* an exception leaves the output step and the try block of main
OutputRaises ==
    /\ Raise
    /\ renderer' = "none"

\* main: the output step, the branch on args.output_format
GenerateOutput ==
    /\ pc = "main_output"
    /\ \E format \in OutputFormats :
        /\ output_format' = format
        /\ renderer' = SelectedWriter(format)
    /\ pc' = "render"
    /\ UNCHANGED <<exc, exit_code, quits, is_replies, ready, diagnosed>>
    /\ UNCHANGED <<attempts, downloads>>
    /\ UNCHANGED <<argVars, collVars, gateVars, loopVars, imgVars>>

\* main: the json and the txt branch, open() and the writes with no
\* exception handler around them
WriteInMain ==
    /\ pc = "render"
    /\ renderer \in {"main_json", "main_txt"}
    /\ \/ /\ Attempt(renderer, "ok")
          /\ OutputDone
       \/ /\ Attempt(renderer, "raised")
          /\ OutputRaises
    /\ UNCHANGED <<exit_code, quits, is_replies, ready, diagnosed>>
    /\ UNCHANGED <<output_format, downloads>>
    /\ UNCHANGED <<argVars, collVars, imgVars>>

\* generate_markdown: os.makedirs outside the try, the writes inside it
GenerateMarkdown ==
    /\ pc = "render"
    /\ renderer = "markdown"
    /\ \/ /\ Attempt("markdown", "ok")
          /\ downloads' = MarkdownDownloads
          /\ OutputDone
       \/ \* except Exception: self._save_as_json(output_filename)
          /\ Attempt("markdown", "failed")
          /\ renderer' = "json"
          /\ UNCHANGED <<pc, exc, gateVars, loopVars, downloads>>
       \/ /\ Attempt("markdown", "raised")
          /\ OutputRaises
          /\ UNCHANGED downloads
    /\ UNCHANGED <<exit_code, quits, is_replies, ready, diagnosed>>
    /\ UNCHANGED output_format
    /\ UNCHANGED <<argVars, collVars, imgVars>>

\* generate_pdf up to the call of _build_pdf: os.makedirs outside the try,
\* _create_pdf_document, _create_pdf_styles, _create_pdf_elements inside
GeneratePdf ==
    /\ pc = "render"
    /\ renderer = "pdf"
    /\ \/ /\ renderer' = "pdf_build"
          /\ downloads' = PdfDownloads
          /\ UNCHANGED <<pc, exc, gateVars, loopVars, attempts>>
       \/ \* except Exception: self._save_as_json(output_filename)
          /\ Attempt("pdf", "failed_early")
          /\ renderer' = "json"
          /\ UNCHANGED <<pc, exc, gateVars, loopVars, downloads>>
       \/ /\ Attempt("pdf", "raised")
          /\ OutputRaises
          /\ UNCHANGED downloads
    /\ UNCHANGED <<exit_code, quits, is_replies, ready, diagnosed>>
    /\ UNCHANGED output_format
    /\ UNCHANGED <<argVars, collVars, imgVars>>

\* _build_pdf: doc.build(elements), and on its failure the call of
\* _try_fallback_formats
BuildPdf ==
    /\ pc = "render"
    /\ renderer = "pdf_build"
    /\ \/ /\ Attempt("pdf", "ok")
          /\ OutputDone
       \/ /\ Attempt("pdf", "failed")
          /\ renderer' = "pdf_text_only"
          /\ UNCHANGED <<pc, exc, gateVars, loopVars>>
    /\ UNCHANGED <<exit_code, quits, is_replies, ready, diagnosed>>
    /\ UNCHANGED <<output_format, downloads>>
    /\ UNCHANGED <<argVars, collVars, imgVars>>

\* _try_fallback_formats: one of its two try blocks (the text-only PDF,
\* then _save_as_text) and, when both failed, the call of _save_as_json
TryFallbackFormats ==
    /\ pc = "render"
    /\ renderer \in {"pdf_text_only", "text"}
    /\ \/ /\ Attempt(renderer, "ok")
          /\ OutputDone
       \/ /\ Attempt(renderer, "failed")
          /\ renderer' = FallbackAfter(renderer)
          /\ UNCHANGED <<pc, exc, gateVars, loopVars>>
    /\ UNCHANGED <<exit_code, quits, is_replies, ready, diagnosed>>
    /\ UNCHANGED <<output_format, downloads>>
    /\ UNCHANGED <<argVars, collVars, imgVars>>

\* _save_as_json: its whole body is in a try whose handler only prints
SaveAsJson ==
    /\ pc = "render"
    /\ renderer = "json"
    /\ \E outcome \in {"ok", "failed"} : Attempt("json", outcome)
    /\ OutputDone
    /\ UNCHANGED <<exit_code, quits, is_replies, ready, diagnosed>>
    /\ UNCHANGED <<output_format, downloads>>
    /\ UNCHANGED <<argVars, collVars, imgVars>>

\* main: finally, scraper.close(), and the end of the process
Close ==
    /\ pc = "finally"
    /\ quits' = quits + 1
    /\ exit_code' = IF exc THEN 1 ELSE 0
    /\ pc' = "exited"
    /\ UNCHANGED <<exc, is_replies, ready>>
    /\ UNCHANGED <<argVars, collVars, gateVars, loopVars>>
    /\ UNCHANGED <<diagnosed, outVars, imgVars>>

Next ==
    \/ SetupDriver
    \/ SkipPass
    \/ StartPass
    \/ GatePoll
    \/ GateTimesOut
    \/ BeginLoop
    \/ ExtractVisit
    \/ LoopExit
    \/ ScrollAttempt
    \/ FinishPass
    \/ GenerateOutput
    \/ WriteInMain
    \/ GenerateMarkdown
    \/ GeneratePdf
    \/ BuildPdf
    \/ TryFallbackFormats
    \/ SaveAsJson
    \/ Close

Spec == Init /\ [][Next]_vars

\* everything but the variables of the image filter
runVars == <<pc, exc, exit_code, quits, argVars, collVars, is_replies, ready,
             gateVars, loopVars, diagnosed, outVars>>

\* the image filter on its own: an img element and the image_urls
\* collected before it, then one iteration of the loop of _extract_images
InitImageFilter ==
    /\ pc = "setup"
    /\ exc = FALSE
    /\ exit_code = -1
    /\ quits = 0
    /\ max_scrolls = MaxScrolls
    /\ skip_posts = FALSE
    /\ skip_replies = FALSE
    /\ posts = <<>>
    /\ replies = <<>>
    /\ is_replies = FALSE
    /\ ready = [p \in {"posts", "replies"} |-> "unrun"]
    /\ elapsed = 0
    /\ poll = NoPoll
    /\ last_height = 0
    /\ scroll_attempts = 0
    /\ posts_count = 0
    /\ articles = <<>>
    /\ measured = <<>>
    /\ scroll_calls = 0
    /\ visits = 0
    /\ diagnosed = [p \in {"posts", "replies"} |-> "none"]
    /\ output_format = "unset"
    /\ renderer = "none"
    /\ attempts = <<>>
    /\ downloads = <<>>
    /\ img \in ImageCandidates
    /\ image_urls \in {<<>>, <<PlainSrc>>}
    /\ verdict = "pending"

\* one iteration of the for loop of _extract_images
ExamineImage ==
    /\ verdict = "pending"
    /\ LET r == ExtractImage(img, image_urls)
       IN /\ verdict' = r.verdict
          /\ image_urls' = r.image_urls
    /\ UNCHANGED <<img, runVars>>

\* _extract_images: the driver raises, except Exception: return []
ExtractImagesRaises ==
    /\ verdict = "pending"
    /\ verdict' = "error"
    /\ image_urls' = <<>>
    /\ UNCHANGED <<img, runVars>>

NextImages ==
    \/ ExamineImage
    \/ ExtractImagesRaises

SpecImages == InitImageFilter /\ [][NextImages]_vars

TypeOK ==
    /\ pc \in {"setup", "main_posts", "main_replies", "main_output", "gate",
               "loading", "extract", "scroll", "finish", "render", "finally",
               "exited"}
    /\ scroll_attempts \in Nat
    /\ posts_count \in Nat

(* ------------------------------ claims -------------------------------- *)

\* the target collection of the pass being run
Coll == IF is_replies THEN replies ELSE posts

InPass == pc \in {"extract", "scroll", "finish"}

SameKey(a, b) == a.text = b.text /\ a.timestamp = b.timestamp

\* the element was extracted and passes the emptiness test of the save gate
Eligible(article) ==
    /\ article.raises = "none"
    /\ (article.data.text /= "" \/ article.data.images /= <<>>)

\* this step is an extraction visit that ran its for loop
VisitStep == pc = "extract" /\ pc' = "scroll"

\* this step is a scroll attempt (a call of _scroll_page that returned)
ScrollStep == pc = "scroll" /\ scroll_calls' = scroll_calls + 1

\* the height measured last before this step
PrecedingHeight == measured[Len(measured)]

\* C1 as stated: in one collection pass the number of scroll attempts
\* (calls of _scroll_page) never exceeds 2 x scroll_budget, for every
\* scroll_budget.
C1_CapEveryBudget ==
    InPass => scroll_calls <= 2 * max_scrolls

\* C1 as amended: in one collection pass the number of scroll attempts
\* never exceeds 2 x scroll_budget when scroll_budget >= 0 and is zero when
\* scroll_budget is negative; with scroll_budget = 5 there are never more
\* than 10 scroll attempts.
C1_ScrollCap ==
    /\ scroll_calls <= (IF max_scrolls >= 0 THEN 2 * max_scrolls ELSE 0)
    /\ max_scrolls = 5 => scroll_calls <= 10

\* a pass with scroll_budget = 5 made its 10th scroll attempt, and the
\* height it measured differs from the reference height
C1_Witness ==
    /\ max_scrolls = 5
    /\ scroll_calls = 10
    /\ measured /= <<>>
    /\ measured[1] /= last_height

NoDuplicatePair(collection) ==
    \A i, j \in 1..Len(collection) :
        SameKey(collection[i], collection[j]) => i = j

\* C4: in every reachable state neither posts nor replies holds two
\* records with the same (text, timestamp) pair.
C4_NoDuplicatePairs ==
    NoDuplicatePair(posts) /\ NoDuplicatePair(replies)

\* a visit met an element whose (text, timestamp) is already stored with
\* another url, stats or images, in a later pass than the first
C4_Witness ==
    /\ pc = "scroll"
    /\ is_replies
    /\ posts /= <<>>
    /\ visits > 1
    /\ \E i \in 1..Len(articles), j \in 1..Len(replies) :
          /\ Eligible(articles[i])
          /\ SameKey(articles[i].data, replies[j])
          /\ articles[i].data /= replies[j]

\* the first extracted element of the list with the key of data
FirstWithKey(arts, data) ==
    CHOOSE i \in 1..Len(arts) :
        /\ arts[i].raises = "none"
        /\ SameKey(arts[i].data, data)
        /\ \A k \in 1..(i - 1) :
              ~(arts[k].raises = "none" /\ SameKey(arts[k].data, data))

\* C5: of the elements sharing a (text, timestamp) pair, the record in the
\* collection is the first one extracted, with its url, stats and images:
\* after every visit the stored record of each visited pair is the one
\* stored before the visit, or, if there was none, the first of the visit.
C5_FirstRecordKept ==
    [][ VisitStep =>
          \A i \in 1..Len(articles') :
              Eligible(articles'[i]) =>
                  \E j \in 1..Len(Coll') :
                      /\ SameKey(Coll'[j], articles'[i].data)
                      /\ IF \E k \in 1..Len(Coll) :
                               SameKey(Coll[k], articles'[i].data)
                         THEN j <= Len(Coll) /\ Coll'[j] = Coll[j]
                         ELSE Coll'[j] =
                                articles'[FirstWithKey(articles', articles'[i].data)].data
      ]_vars

\* the first visit of the posts pass found two elements with the same pair
\* and different urls, and the first one is the record stored
C5_Witness ==
    /\ pc = "scroll"
    /\ ~is_replies
    /\ visits = 1
    /\ Len(articles) = 2
    /\ Eligible(articles[1])
    /\ Eligible(articles[2])
    /\ SameKey(articles[1].data, articles[2].data)
    /\ articles[1].data.url /= articles[2].data.url
    /\ posts = <<articles[1].data>>

\* C6: every stored record has non-empty text or at least one image.
C6_NoEmptyRecord ==
    \A collection \in {posts, replies} :
        \A i \in 1..Len(collection) :
            collection[i].text /= "" \/ collection[i].images /= <<>>

\* a visit extracted an element with neither text nor image and one with
\* an image only: only the latter is stored
C6_Witness ==
    /\ pc = "scroll"
    /\ Len(articles) = 2
    /\ articles[1].raises = "none"
    /\ articles[1].data.text = ""
    /\ articles[1].data.images = <<>>
    /\ articles[2].raises = "none"
    /\ articles[2].data.text = ""
    /\ articles[2].data.images /= <<>>
    /\ Coll = <<articles[2].data>>

\* this step is a poll of the gate, and the gate returns at it
GateReturnStep == pc = "gate" /\ ready' /= ready

\* C7: the gate returns true only at a poll at which a selector matched
\* and the markup was longer than 1000 characters; at a poll that sees a
\* markup of length 50 it does not return true, also when a selector
\* matches.
C7_ReadyNeedsBoth ==
    [][ (GateReturnStep /\ ready'[PassName] = "true")
        => /\ GateWaiting(elapsed)
           /\ ~poll'.raised
           /\ poll'.matched /= {}
           /\ poll'.markup > 1000
           /\ poll'.markup /= 50 ]_vars

\* the gate returned true: the poll at which it returned saw a matching
\* selector and a markup of more than 1000 characters
C7_Witness ==
    /\ pc = "loading"
    /\ ready[PassName] = "true"
    /\ poll.matched /= {}
    /\ poll.markup > 1000

\* C8: at a poll at which the page URL contains login or blocked
\* (case-insensitively) the gate returns false at that poll, also when a
\* selector matches and the markup is longer than 1000 characters.
C8_BlockedFailsFast ==
    [][ (/\ pc = "gate"
         /\ GateWaiting(elapsed)
         /\ ~poll'.raised
         /\ IsBlockedPage(poll'.url))
        => (ready'[PassName] = "false" /\ pc' = AfterPass) ]_vars

\* C9: the loop is entered only after the gate of the pass returned true;
\* when the gate returns false the pass returns to main with no visit, no
\* scroll attempt, no append and no exception, and main goes on to the
\* replies pass (unless it is skipped).
C9_GateBeforeLoop ==
    [][ /\ (pc' \in {"loading", "extract", "scroll", "finish"}
              => ready'[PassName'] = "true")
        /\ (GateReturnStep /\ ready'[PassName] = "false")
              => /\ pc' = AfterPass
                 /\ ~exc'
                 /\ posts' = posts
                 /\ replies' = replies
                 /\ visits' = 0
                 /\ scroll_calls' = 0
        /\ (pc = "main_replies" /\ ~skip_replies)
              => (is_replies' /\ pc' \in {"gate", "finally"})
      ]_vars

\* the gate of the posts pass returned false, nothing was collected, and
\* the replies pass is in its loop
C9_Witness ==
    /\ ready["posts"] = "false"
    /\ posts = <<>>
    /\ is_replies
    /\ pc = "scroll"
    /\ replies /= <<>>

\* old is a prefix of new
IsPrefix(old, new) ==
    /\ Len(old) <= Len(new)
    /\ \A i \in 1..Len(old) : new[i] = old[i]

\* C10: in a visit in which an element raises, every other element is
\* still processed (each extracted element with text or an image has its
\* pair in the collection after the visit), the records stored before stay,
\* and the pass goes on to the scroll attempt.
C10_ElementErrorSkipsElement ==
    [][ (/\ pc = "extract"
         /\ \E i \in 1..Len(articles') : articles'[i].raises /= "none")
        => /\ pc' = "scroll"
           /\ ~exc'
           /\ IsPrefix(Coll, Coll')
           /\ \A i \in 1..Len(articles') :
                 Eligible(articles'[i]) =>
                     \E j \in 1..Len(Coll') :
                         SameKey(Coll'[j], articles'[i].data)
      ]_vars

\* a visit whose first element raised stored its second element after the
\* record an earlier visit had stored
C10_Witness ==
    /\ pc = "scroll"
    /\ visits = 2
    /\ Len(articles) = 2
    /\ articles[1].raises /= "none"
    /\ Eligible(articles[2])
    /\ Len(Coll) = 2
    /\ Coll[2] = articles[2].data

\* the records the step appended to the collection of the pass
Appended == SubSeq(Coll', Len(Coll) + 1, Len(Coll'))

\* C11: posts and replies are append-only: across every step the earlier
\* content of each collection is a prefix of its later content, and the
\* records one visit appends stand in the order in which the element
\* lookup returned their elements.
C11_AppendOnly ==
    [][ /\ IsPrefix(posts, posts')
        /\ IsPrefix(replies, replies')
        /\ VisitStep =>
              \A a, b \in 1..Len(Appended) :
                  a < b =>
                      \E i, j \in 1..Len(articles') :
                          /\ i < j
                          /\ articles'[i].raises = "none"
                          /\ articles'[j].raises = "none"
                          /\ articles'[i].data = Appended[a]
                          /\ articles'[j].data = Appended[b]
      ]_vars

\* a visit of the replies pass appended two records, in the order of
\* their elements, while posts held a record
C11_Witness ==
    /\ pc = "scroll"
    /\ is_replies
    /\ posts /= <<>>
    /\ Len(articles) = 2
    /\ ~SameKey(articles[1].data, articles[2].data)
    /\ replies = <<articles[1].data, articles[2].data>>

\* the iteration of _extract_images reached the size rule
ReachedSizeRule == verdict \in {"small", "duplicate", "added"}

\* the attribute is present, parses as a positive integer and is below 50
SmallDimension(a) ==
    /\ a.present
    /\ ParseInt(a.s).ok
    /\ 0 < ParseInt(a.s).val
    /\ ParseInt(a.s).val < 50

\* C12: the image size rule rejects an image exactly when at least one of
\* width and height is present, parses as a positive integer and is below
\* 50, whatever the other dimension is (missing, unparseable or large).
C12_SizeRule ==
    ReachedSizeRule =>
        ((verdict = "small") <=>
            (SmallDimension(img.width) \/ SmallDimension(img.height)))

\* the indicators as C13 lists them
C13_Indicators ==
    { Profile \o <<"_", "p", "i", "c">>, Profile \o <<"-", "p", "i", "c">>,
      Avatar, Profile, <<"/", "p", "/">>, <<"_", "p", "p", "_">>,
      Profile \o <<"_", "i", "m", "a", "g", "e">> }

\* the attribute contains one of the indicators, letter case ignored
HasIndicator(a) ==
    /\ a.present
    /\ \E ind \in C13_Indicators : Contains(ind, ToLower(a.s))

\* C13: an image candidate whose src or alt contains, case-insensitively,
\* one of the indicators profile_pic, profile-pic, avatar, profile, /p/,
\* _pp_, profile_image is rejected (its src is not added to the images of
\* the record), whatever its width and height are.
C13_IndicatorRejects ==
    [][ (/\ verdict = "pending"
         /\ verdict' /= "pending"
         /\ (HasIndicator(img.src) \/ HasIndicator(img.alt)))
        => /\ verdict' /= "added"
           /\ image_urls' \in {image_urls, <<>>} ]_vars

\* an img whose src holds AVATAR in capitals, with no alt, a width of 50
\* and no height, was rejected as a profile picture
C13_Witness ==
    /\ verdict = "profile"
    /\ img.src = Attr(<<"h", "/">> \o ToUpper(Avatar) \o <<".", "j">>)
    /\ img.alt = Missing
    /\ img.width = Attr(<<"5", "0">>)
    /\ img.height = Missing

\* the fallbacks of the rich document, in the order C14 gives them
FallbackChain == <<"pdf_text_only", "text", "json">>

RichBuildFailed ==
    /\ attempts /= <<>>
    /\ attempts[1] = [renderer |-> "pdf", outcome |-> "failed"]

OutputOver == pc \in {"finally", "exited"}

C15_RendererFailureCaught ==
    [][ pc = "render" =>
           /\ ~exc'
           /\ pc' = "finally" =>
                 \/ attempts'[Len(attempts')].outcome = "ok"
                 \/ attempts'[Len(attempts')].renderer = "json" ]_vars

\* C16: once the driver was initialized (so that the run ends with the
\* driver quit), the run ends with exit code zero, whatever failed in
\* navigation, the gate, element lookup, scrolling, the debug snapshot or
\* rendering.
C16_ExitCodeZero ==
    (pc = "exited" /\ quits > 0) => exit_code = 0

\* C17: for every renderer that downloads images and for every record,
\* the number of image downloads made for the record is bounded by a
\* small fixed constant (the 3 of the PDF writer), however many image
\* URLs the record holds.
C17_DownloadsCapped ==
    \A i \in 1..Len(downloads) : downloads[i] <= 3

\* this step ends a pass: _wait_for_content returned False, or
\* _scroll_and_extract returned
PassReturns == pc \in {"gate", "finish"} /\ pc' = AfterPass

\* C18: a pass that ends with zero records collected during it, whether
\* by a failed gate, by the height signal or by the hard cap, captures the
\* final snapshot and emits the no-content warning; a pass that collected
\* at least one record does neither.
C18_NoContentDiagnosed ==
    [][ PassReturns =>
           IF posts_count = 0
           THEN diagnosed'[PassName] = "snapshot"
           ELSE diagnosed'[PassName] = "none" ]_vars

\* the pass being at its end, it was ended by the height signal
EndedByHeight == measured = <<last_height, last_height>>

\* the parts of C19 about the reference height and the height signal
ReferenceNeverUpdated ==
    /\ (pc = "loading" /\ pc' = "extract") => last_height' = measured'[1]
    /\ (InPass /\ pc' \in {"extract", "scroll", "finish"}) =>
          last_height' = last_height
    /\ ScrollStep =>
          (pc' = "finish" <=>
              /\ Len(measured') = 2
              /\ measured'[1] = last_height
              /\ measured'[2] = last_height)

VisitsAlternate ==
    /\ VisitStep => (visits = scroll_calls /\ visits' = visits + 1)
    /\ ScrollStep => (visits = scroll_calls + 1 /\ visits' = visits)
    /\ pc' = "finish" => visits' = scroll_calls'
    /\ (pc = "extract" /\ max_scrolls > 0 /\ scroll_calls = 2 * max_scrolls) =>
          (pc' = "finish" /\ UNCHANGED <<posts, replies, visits>>)

C21_NoBudgetNoWork ==
    [][ (max_scrolls <= 0 /\ pc \in {"loading", "extract", "scroll", "finish"})
        => /\ visits' = 0
           /\ scroll_calls' = 0
           /\ UNCHANGED <<posts, replies>>
           /\ pc' /= "scroll"
           /\ pc = "extract" => pc' = "finish"
           /\ pc = "finish" =>
                 /\ diagnosed'[PassName] \in {"snapshot", "warned"}
                 /\ pc' = AfterPass => diagnosed'[PassName] = "snapshot"
      ]_vars

\* with scroll_budget = 0 the posts pass, whose gate had found content
\* elements, returned with nothing appended and the snapshot captured
C21_Witness ==
    /\ max_scrolls = 0
    /\ pc = "main_replies"
    /\ ready["posts"] = "true"
    /\ posts = <<>>
    /\ diagnosed["posts"] = "snapshot"

\* the largest number of scroll attempts a pass can make
AttemptsCap == IF max_scrolls > 0 THEN MaxScrollAttempts(max_scrolls) ELSE 0

\* a bound on the number of steps a pass can take from its start
PassMax == GateTimeout + PollSleep + 2 * AttemptsCap + 4

\* a bound on the number of steps left in the pass being run
PassLeft ==
    CASE pc = "gate" -> GateTimeout + PollSleep - elapsed + 2 * AttemptsCap + 3
      [] pc = "loading" -> 2 * AttemptsCap + 3
      [] pc = "extract" -> 2 * (AttemptsCap - scroll_attempts) + 2
      [] pc = "scroll" -> 2 * (AttemptsCap - scroll_attempts) + 1
      [] pc = "finish" -> 1

\* a bound on the number of steps left in the output step and after it
OutputLeft ==
    CASE pc = "exited" -> 0
      [] pc = "finally" -> 1
      [] pc = "main_output" -> 7
      [] pc = "render" ->
            CASE renderer = "pdf" -> 6
              [] renderer = "pdf_build" -> 5
              [] renderer = "pdf_text_only" -> 4
              [] renderer = "text" -> 3
              [] renderer = "json" -> 2
              [] renderer = "markdown" -> 3
              [] OTHER -> 2

\* a bound on the number of steps left in the run
StepsLeft ==
    CASE pc = "setup" -> 8 + 2 * PassMax
      [] pc = "main_posts" -> 7 + 2 * PassMax
      [] pc = "main_replies" -> 7 + PassMax
      [] pc \in {"gate", "loading", "extract", "scroll", "finish"} ->
            7 + PassLeft + (IF is_replies THEN 0 ELSE PassMax)
      [] OTHER -> OutputLeft

\* C22: after the driver was initialized, every execution of the run,
\* including one in which a pass or a renderer raises, eventually quits
\* the driver, quits it exactly once, and takes no step after the quit.
\* In finite-run form: every step starts with the driver not yet quit and
\* lowers a bound on the number of steps left, so that no run goes on for
\* ever; the process ends only from the driver set-up that failed or with
\* the driver quit once; and a run that has not ended can take a step.
C22_QuitExactlyOnce ==
    /\ [][ /\ quits = 0
           /\ quits' <= 1
           /\ StepsLeft' < StepsLeft
           /\ StepsLeft' >= 0
           /\ pc' = "exited" => (pc = "setup" \/ quits' = 1) ]_vars
    /\ [](pc /= "exited" => ENABLED Next)

\* a run whose renderer raised has quit the driver once and is over
C22_Witness ==
    /\ pc = "exited"
    /\ quits = 1
    /\ exc
    /\ attempts /= <<>>
    /\ attempts[Len(attempts)].outcome = "raised"

====
